---- MODULE Spec2Model ----
(***************************************************************************)
(* Explorador lexico de C-rvicio Militar (src/explorador.py).              *)
(*                                                                         *)
(* A text is a sequence of characters; a character is a one-character      *)
(* string, except the control characters, which are named (LF, CR, ...).   *)
(* Offsets are 0-based as in Python: the character at offset i of t is     *)
(* t[i+1], and the slice t[a:b] is SubSeq(t, a+1, b).  A failed match is   *)
(* -1.  One call of Explorador.tokenizar is modelled: one action per       *)
(* iteration of its finditer loop, one for the code after the loop.        *)
(***************************************************************************)
EXTENDS Integers, Sequences, FiniteSets, TLC

VARIABLES texto, con_nuevaslineas, tolerante,
          tokens, linea, linea_inicio, pos, estado, error, spans

vars == <<texto, con_nuevaslineas, tolerante,
          tokens, linea, linea_inicio, pos, estado, error, spans>>

----------------------------------------------------------------------------
(* Characters *)

LF == "LF"
CR == "CR"
TAB == "TAB"
FF == "FF"
VT == "VT"
FS == "FS"
NBSP == "NBSP"
DQ == "\""

Minusculas ==
    {"a", "b", "c", "d", "e", "f", "g", "h", "i", "j", "k", "l", "m",
     "n", "o", "p", "q", "r", "s", "t", "u", "v", "w", "x", "y", "z"}

Mayusculas ==
    {"A", "B", "C", "D", "E", "F", "G", "H", "I", "J", "K", "L", "M",
     "N", "O", "P", "Q", "R", "S", "T", "U", "V", "W", "X", "Y", "Z"}

Digitos == {"0", "1", "2", "3", "4", "5", "6", "7", "8", "9"}

\* [ \t\f\v\r]
EspacioHorizontal == {" ", TAB, FF, VT, CR}

\* \s of a str pattern: the ASCII whitespace and the Unicode whitespace, of
\* which the file separator and the no-break space stand here.
EspacioRegex == {" ", TAB, LF, CR, FF, VT, FS, NBSP}

PALABRAS_CLAVE ==
    {
      <<"e","j","e","r","c","i","t","o">>, <<"g","l","o","b","a","l">>,
      <<"v","a","r">>, <<"m","i","s","i","o","n">>,
      <<"s","e","v","e","r","i","d","a","d">>, <<"e","s","t","r","i","c","t","o">>,
      <<"a","d","v","e","r","t","e","n","c","i","a">>, <<"r","e","v","i","s","a","r">>,
      <<"e","j","e","c","u","t","a","r">>, <<"c","o","n","f","i","r","m","a","r">>,
      <<"s","i">>, <<"p","o","r">>,
      <<"d","e","f","e","c","t","o">>, <<"e","s","t","r","a","t","e","g","i","a">>,
      <<"a","t","a","c","a","r">>, <<"m","i","e","n","t","r","a","s">>,
      <<"r","e","t","i","r","a","d","a">>, <<"c","o","n">>,
      <<"a","b","o","r","t","a","r">>, <<"a","v","a","n","z","a","r">>,
      <<"a","f","i","r","m","a","t","i","v","o">>, <<"n","e","g","a","t","i","v","o">>,
      <<"n","u","l","o">>, <<"r","e","p","o","r","t","a","r">>,
      <<"r","e","c","i","b","i","r">>, <<"c","l","a","s","i","f","i","c","a","r","N","u","m","e","r","o">>,
      <<"c","l","a","s","i","f","i","c","a","r","M","e","n","s","a","j","e">>, <<"a","z","a","r">>,
      <<"a","R","a","n","g","o","S","u","p","e","r","i","o","r">>, <<"a","R","a","n","g","o","I","n","f","e","r","i","o","r">>,
      <<"a","c","a","m","p","a","r">>, <<"c","a","l","i","b","r","e">>,
      <<"t","r","u","n","c","a","r">>
    }

MULTI_OPS ==
    << <<"|","|">>, <<"&","&">>, <<"=","=">>, <<"!","=">>, <<"<","=">>,
       <<">","=">>, <<"+","=">>, <<"-","=">>, <<"*","=">>, <<"/","=">>,
       <<"%","=">> >>

SINGLE_OPS ==
    << <<"=">>, <<"+">>, <<"-">>, <<"*">>, <<"/">>, <<"%">>, <<"<">>,
       <<">">>, <<"!">> >>

PUNCT ==
    << <<"(">>, <<")">>, <<"{">>, <<"}">>, <<"[">>, <<"]">>, <<".">>,
       <<",">>, <<":">> >>

----------------------------------------------------------------------------
(* Python's string primitives *)

\* t[i]
Ch(t, i) == t[i + 1]

\* t[a:b] for 0 <= a <= b <= len(t)
Rebanada(t, a, b) == SubSeq(t, a + 1, b)

\* whether the literal lit occurs in t at offset i
Literal(t, i, lit) ==
    /\ i + Len(lit) <= Len(t)
    /\ \A k \in 1..Len(lit) : t[i + k] = lit[k]

\* the end of the greedy run of characters of clase that starts at offset p
RECURSIVE Racha(_, _, _)
Racha(t, p, clase) ==
    IF p < Len(t) /\ Ch(t, p) \in clase THEN Racha(t, p + 1, clase) ELSE p

\* the end of the greedy run of characters outside fuera from offset p
RECURSIVE RachaNegada(_, _, _)
RachaNegada(t, p, fuera) ==
    IF p < Len(t) /\ Ch(t, p) \notin fuera
    THEN RachaNegada(t, p + 1, fuera) ELSE p

\* s.count(c)
Contar(s, c) == Cardinality({k \in 1..Len(s) : s[k] = c})

\* s.rfind(c): the offset of the last c of s, -1 when there is none
RFind(s, c) ==
    IF \E k \in 1..Len(s) : s[k] = c
    THEN (CHOOSE k \in 1..Len(s) :
              s[k] = c /\ \A j \in (k + 1)..Len(s) : s[j] # c) - 1
    ELSE -1

\* s.replace("\n", "\\n")
RECURSIVE ReplaceLF(_)
ReplaceLF(s) ==
    IF s = <<>> THEN <<>>
    ELSE (IF Head(s) = LF THEN <<"\\", "n">> ELSE <<Head(s)>>)
         \o ReplaceLF(Tail(s))

\* s.replace("\n", "")
QuitarLF(s) == SelectSeq(s, LAMBDA c : c # LF)

----------------------------------------------------------------------------
(* TOKEN_SPEC: the end offset of each pattern's match at offset i, or -1 *)

\* (?:[^*]|\*[^/])*\*/ from offset p: the body is taken greedily, an
\* iteration at a time, and given back until the closing */ matches.
RECURSIVE CuerpoBloque(_, _)
CuerpoBloque(t, p) ==
    LET n == Len(t)
        sig == IF p < n /\ Ch(t, p) # "*" THEN p + 1
               ELSE IF p + 1 < n /\ Ch(t, p) = "*" /\ Ch(t, p + 1) # "/"
                    THEN p + 2
                    ELSE -1
        resto == IF sig # -1 THEN CuerpoBloque(t, sig) ELSE -1
    IN  IF resto # -1 THEN resto
        ELSE IF Literal(t, p, <<"*", "/">>) THEN p + 2 ELSE -1

\* /\*(?:[^*]|\*[^/])*\*/
MatchComentBloq(t, i) ==
    IF Literal(t, i, <<"/", "*">>) THEN CuerpoBloque(t, i + 2) ELSE -1

\* //[^\n]*(?:\r?\n)?
MatchComentLinea(t, i) ==
    IF Literal(t, i, <<"/", "/">>)
    THEN LET q == RachaNegada(t, i + 2, {LF})
         IN  IF Literal(t, q, <<CR, LF>>) THEN q + 2
             ELSE IF Literal(t, q, <<LF>>) THEN q + 1
             ELSE q
    ELSE -1

\* MatchEspacio, were the pattern [ \t\f\v\r]*, which matches the empty text
MatchEspacioVacio(t, i) == Racha(t, i, EspacioHorizontal)

\* [ \t\f\v\r]+
MatchEspacio(t, i) ==
    LET q == Racha(t, i, EspacioHorizontal) IN IF q > i THEN q ELSE -1

\* (?:\r?\n)* from offset p
RECURSIVE RachaNL(_, _)
RachaNL(t, p) ==
    IF Literal(t, p, <<CR, LF>>) THEN RachaNL(t, p + 2)
    ELSE IF Literal(t, p, <<LF>>) THEN RachaNL(t, p + 1)
    ELSE p

\* MatchNL, were the pattern \r?\n, one newline sequence and no more
MatchNLUno(t, i) ==
    IF Literal(t, i, <<CR, LF>>) THEN i + 2
    ELSE IF Literal(t, i, <<LF>>) THEN i + 1
    ELSE -1

\* (?:\r?\n)+
MatchNL(t, i) ==
    LET q == RachaNL(t, i) IN IF q > i THEN q ELSE -1

\* "[^"\n]*"
MatchCadena(t, i) ==
    IF Literal(t, i, <<DQ>>)
    THEN LET q == RachaNegada(t, i + 1, {DQ, LF})
         IN  IF Literal(t, q, <<DQ>>) THEN q + 1 ELSE -1
    ELSE -1

\* [0-9]+
MatchNumEntero(t, i) ==
    LET q == Racha(t, i, Digitos) IN IF q > i THEN q ELSE -1

\* [0-9]+\.[0-9]+
MatchNumFlotante(t, i) ==
    LET q == MatchNumEntero(t, i)
    IN  IF q # -1 /\ Literal(t, q, <<".">>)
        THEN MatchNumEntero(t, q + 1)
        ELSE -1

\* an alternation of literals: the first alternative, in list order, that
\* occurs at offset i
MatchAlternativas(t, i, lits) ==
    IF \E k \in 1..Len(lits) : Literal(t, i, lits[k])
    THEN i + Len(lits[CHOOSE k \in 1..Len(lits) :
                          /\ Literal(t, i, lits[k])
                          /\ \A j \in 1..(k - 1) : ~Literal(t, i, lits[j])])
    ELSE -1

\* OPS_RE, were the one-character operators listed first
OPS_RE_SimplesPrimero == SINGLE_OPS \o MULTI_OPS

\* OPS_RE = "(?:" + "|".join(MULTI_OPS + SINGLE_OPS) + ")"
OPS_RE == MULTI_OPS \o SINGLE_OPS

MatchOperador(t, i) == MatchAlternativas(t, i, OPS_RE)

\* PUNCT_RE = "(?:" + "|".join(PUNCT) + ")"
PUNCT_RE == PUNCT

MatchSimbolo(t, i) == MatchAlternativas(t, i, PUNCT_RE)

\* [A-Za-z_]
InicioIdent == Minusculas \cup Mayusculas \cup {"_"}

\* [A-Za-z0-9_]
CuerpoIdent == Minusculas \cup Mayusculas \cup Digitos \cup {"_"}

\* [A-Za-z_][A-Za-z0-9_]*
MatchIdent(t, i) ==
    IF i < Len(t) /\ Ch(t, i) \in InicioIdent
    THEN Racha(t, i + 1, CuerpoIdent)
    ELSE -1

\* the pattern table, in its order
TOKEN_SPEC ==
    <<"COMENT_BLOQ", "COMENT_LINEA", "ESPACIO", "NL", "CADENA",
      "NUM_FLOTANTE", "NUM_ENTERO", "OPERADOR", "SIMBOLO", "IDENT">>

MatchPatron(nombre, t, i) ==
    CASE nombre = "COMENT_BLOQ"  -> MatchComentBloq(t, i)
      [] nombre = "COMENT_LINEA" -> MatchComentLinea(t, i)
      [] nombre = "ESPACIO"      -> MatchEspacio(t, i)
      [] nombre = "NL"           -> MatchNL(t, i)
      [] nombre = "CADENA"       -> MatchCadena(t, i)
      [] nombre = "NUM_FLOTANTE" -> MatchNumFlotante(t, i)
      [] nombre = "NUM_ENTERO"   -> MatchNumEntero(t, i)
      [] nombre = "OPERADOR"     -> MatchOperador(t, i)
      [] nombre = "SIMBOLO"      -> MatchSimbolo(t, i)
      [] nombre = "IDENT"        -> MatchIdent(t, i)

NoMatch == [inicio |-> -1, fin |-> -1, tipo |-> "NINGUNO"]

\* MASTER_RE.match at offset i: the first pattern of the table that matches
MASTER_RE(t, i) ==
    LET fines == [k \in 1..Len(TOKEN_SPEC) |-> MatchPatron(TOKEN_SPEC[k], t, i)]
    IN  IF \E k \in 1..Len(TOKEN_SPEC) : fines[k] # -1
        THEN LET k == CHOOSE k \in 1..Len(TOKEN_SPEC) :
                          /\ fines[k] # -1
                          /\ \A j \in 1..(k - 1) : fines[j] = -1
             IN  [inicio |-> i, fin |-> fines[k], tipo |-> TOKEN_SPEC[k]]
        ELSE NoMatch

\* the next match of MASTER_RE.finditer, searching from offset desde: the
\* leftmost offset at which some pattern matches
RECURSIVE Finditer(_, _)
Finditer(t, desde) ==
    IF desde >= Len(t) THEN NoMatch
    ELSE LET m == MASTER_RE(t, desde)
         IN  IF m.inicio # -1 THEN m ELSE Finditer(t, desde + 1)

----------------------------------------------------------------------------
(* Explorador *)

\* class Token: lexema, tipo, atributos
Token(lexema, tipo, atributos) ==
    [lexema |-> lexema, tipo |-> tipo, atributos |-> atributos]

\* Explorador._clasificar: the final kind and the kind's own attributes; the
\* caller adds fila and columna.  valor is the string without its quotes.
\* TipoClasificado, were a keyword at the start of the lexeme enough
TipoPorPrefijo(tipo, lexema) ==
    IF tipo = "IDENT"
       /\ \E p \in PALABRAS_CLAVE :
              Len(p) <= Len(lexema) /\ SubSeq(lexema, 1, Len(p)) = p
    THEN "PALABRA_CLAVE"
    ELSE tipo

TipoClasificado(tipo, lexema) ==
    IF tipo = "IDENT" /\ lexema \in PALABRAS_CLAVE THEN "PALABRA_CLAVE"
    ELSE tipo

Clasificar(tipo, lexema, fila, columna) ==
    IF tipo = "CADENA"
    THEN Token(lexema, TipoClasificado(tipo, lexema),
               [valor |-> Rebanada(lexema, 1, Len(lexema) - 1),
                fila |-> fila, columna |-> columna])
    ELSE Token(lexema, TipoClasificado(tipo, lexema),
               [fila |-> fila, columna |-> columna])

\* Explorador._consume_desconocido: True unless the chunk, its "\n" removed,
\* holds a character that is not whitespace
ConsumeDesconocido(chunk) ==
    \/ chunk = <<>>
    \/ ~\E k \in 1..Len(QuitarLF(chunk)) : QuitarLF(chunk)[k] \notin EspacioRegex

\* bad_chunk[:20]
ExcerptMax == 20

Excerpt(bad_chunk) ==
    ReplaceLF(Rebanada(bad_chunk, 0,
                       IF Len(bad_chunk) < ExcerptMax THEN Len(bad_chunk)
                       ELSE ExcerptMax))

NoError == [fila |-> 0, columna |-> 0, excerpt |-> <<>>, al_final |-> FALSE]

\* col = pos - linea_inicio + 1
Columna(desde, inicio_linea) == desde - inicio_linea + 1

\* linea after a match of kind tipo with the given lexeme
NuevaLinea(tipo, lexema, fila) ==
    IF tipo = "NL" THEN fila + Contar(lexema, LF) ELSE fila

\* linea_inicio after a match of kind tipo that starts at offset inicio
NuevaLineaInicio(tipo, lexema, inicio, inicio_linea) ==
    IF tipo = "NL" /\ RFind(lexema, LF) # -1
    THEN inicio + RFind(lexema, LF) + 1
    ELSE inicio_linea

\* Emite, were the newline option to keep the ESPACIO matches as well
EmiteEspacios(tipo, cn) ==
    IF tipo \in {"NL", "ESPACIO"} THEN cn
    ELSE tipo \notin {"COMENT_LINEA", "COMENT_BLOQ"}

\* whether a match of kind tipo appends a token
Emite(tipo, cn) ==
    IF tipo = "NL" THEN cn
    ELSE tipo \notin {"ESPACIO", "COMENT_LINEA", "COMENT_BLOQ"}

\* Lexema, were the first character of the match left out
LexemaRecortado(t, m) == Rebanada(t, m.inicio + 1, m.fin)

\* lexema = m.group(tipo)
Lexema(t, m) == Rebanada(t, m.inicio, m.fin)

\* a span of the text the scan has gone over: a match or a gap
Span(ini, fin, clase, emite) ==
    [ini |-> ini, fin |-> fin, clase |-> clase, emite |-> emite]

\* the locals of one call of tokenizar
Locales(toks, fila, inicio_linea, p, est, err, sp) ==
    [tokens |-> toks, linea |-> fila, linea_inicio |-> inicio_linea,
     pos |-> p, estado |-> est, error |-> err, spans |-> sp]

LocalesIniciales == Locales(<<>>, 1, 0, 0, "scan", NoError, <<>>)

\* one iteration of `for m in MASTER_RE.finditer(texto)`, m the match
Iteracion(t, cn, tol, s, m) ==
    LET bad_chunk == Rebanada(t, s.pos, m.inicio)
        col == Columna(s.pos, s.linea_inicio)
        lexema == Lexema(t, m)
        tok_col == Columna(m.inicio, s.linea_inicio)
        hueco == IF m.inicio # s.pos
                 THEN <<Span(s.pos, m.inicio, "GAP", FALSE)>> ELSE <<>>
    IN  IF m.inicio # s.pos /\ ~ConsumeDesconocido(bad_chunk)
        THEN IF tol
             \* Token(bad_chunk, "ERROR", linea, col, {...}): five arguments
             \* for a class of three fields
             THEN [s EXCEPT !.estado = "TypeError"]
             ELSE [s EXCEPT !.estado = "ExploradorError",
                            !.error = [fila |-> s.linea, columna |-> col,
                                       excerpt |-> Excerpt(bad_chunk),
                                       al_final |-> FALSE]]
        ELSE Locales(
                 IF Emite(m.tipo, cn)
                 THEN Append(s.tokens,
                             IF m.tipo = "NL"
                             THEN Token(lexema, "NL",
                                        [fila |-> s.linea, columna |-> tok_col])
                             ELSE Clasificar(m.tipo, lexema, s.linea, tok_col))
                 ELSE s.tokens,
                 NuevaLinea(m.tipo, lexema, s.linea),
                 NuevaLineaInicio(m.tipo, lexema, m.inicio, s.linea_inicio),
                 m.fin,
                 "scan",
                 s.error,
                 s.spans \o hueco
                     \o <<Span(m.inicio, m.fin, m.tipo, Emite(m.tipo, cn))>>)

\* the code after the loop: the text left over, and the return
Final(t, tol, s) ==
    LET longitud == Len(t)
        bad_chunk == Rebanada(t, s.pos, longitud)
        col == Columna(s.pos, s.linea_inicio)
    IN  IF s.pos < longitud /\ ~ConsumeDesconocido(bad_chunk)
        THEN IF tol
             THEN [s EXCEPT
                     !.tokens = Append(s.tokens,
                         Token(bad_chunk, "ERROR",
                               [fila |-> s.linea, columna |-> col,
                                motivo |-> "desconocido"])),
                     !.spans = Append(s.spans,
                                      Span(s.pos, longitud, "GAP", TRUE)),
                     !.pos = s.pos,
                     !.estado = "return"]
             ELSE [s EXCEPT !.estado = "ExploradorError",
                            !.error = [fila |-> s.linea, columna |-> col,
                                       excerpt |-> Excerpt(bad_chunk),
                                       al_final |-> TRUE]]
        ELSE [s EXCEPT
                !.spans = IF s.pos < longitud
                          THEN Append(s.spans,
                                      Span(s.pos, longitud, "GAP", FALSE))
                          ELSE s.spans,
                !.estado = "return"]

\* a whole call of tokenizar, from the locals s on
RECURSIVE Correr(_, _, _, _)
Correr(t, cn, tol, s) ==
    IF s.estado # "scan" THEN s
    ELSE LET m == Finditer(t, s.pos)
         IN  IF m # NoMatch THEN Correr(t, cn, tol, Iteracion(t, cn, tol, s, m))
             ELSE Final(t, tol, s)

\* Explorador(con_nuevaslineas, tolerante).tokenizar(texto)
Tokenizar(t, cn, tol) == Correr(t, cn, tol, LocalesIniciales)

----------------------------------------------------------------------------
(* The inputs *)

MaxLen == 3
MaxLenNL == 5
MaxLenOps == 2
MaxLenProgreso == 3

Cadenas(alfabeto, n) == UNION {[1..k -> alfabeto] : k \in 0..n}

\* comments, gaps and lines
AlfabetoLineas == {"a", LF, "/", "*", "@", NBSP}
\* line-terminator runs
AlfabetoNL == {"a", CR, LF}
\* operators
AlfabetoOps == {"|", "&", "=", "!", "<", ">", "+", "-", "*", "/", "%"}
\* identifiers and keywords
AlfabetoIdent == {"s", "i", "a", " ", "1"}
\* strings, numbers and symbols
AlfabetoLiterales == {DQ, "a", "1", ".", LF}

\* every kind of match, for the runs to their end
AlfabetoProgreso == {"a", " ", LF, "/", "*", "@", "1", DQ}

Ejemplos ==
    { <<"s","i"," ","v","a","r","i","a","b","l","e">>,
      <<"s","i","v","a","r","i","a","b","l","e">>,
      <<"x"," ","@"," ","y">>,
      <<"v","a","r"," ","/","*"," ","c"," ","*","/"," ","x">>,
      <<"/","*","*","*","/">>,
      <<"/","*"," ","a"," ","*","*","/">>,
      <<"/","*"," ","*","*","/"," ","x"," ","*","/"," ","y">>,
      <<"/","*",LF,"*","/","a">>,
      <<"a",CR,LF,CR,LF,"b">>,
      <<DQ,"h","o","l","a",DQ>>,
      <<"&","&","=">>,
      <<"/","/",LF,"@">>,
      <<"/","/","a",LF,"a",LF,LF,"a">>,
      <<"a"," ","=",DQ,"s",DQ,"/","/","c",LF,"1",".","5","(",CR,LF,"@">> }

Entradas ==
    Cadenas(AlfabetoLineas, MaxLen) \cup Cadenas(AlfabetoNL, MaxLenNL)
    \cup Cadenas(AlfabetoOps, MaxLenOps) \cup Cadenas(AlfabetoIdent, MaxLen)
    \cup Cadenas(AlfabetoLiterales, MaxLen) \cup Ejemplos

EntradasProgreso == Cadenas(AlfabetoProgreso, MaxLenProgreso) \cup Ejemplos

----------------------------------------------------------------------------
(* The state machine: one call of tokenizar on an Explorador *)

\* Explorador(con_nuevaslineas, tolerante) and the first line of
\* tokenizar(texto), for a text of the set entradas
Llamada(entradas) ==
    /\ texto \in entradas
    /\ con_nuevaslineas \in BOOLEAN
    /\ tolerante \in BOOLEAN
    /\ tokens = <<>>
    /\ linea = 1
    /\ linea_inicio = 0
    /\ pos = 0
    /\ estado = "scan"
    /\ error = NoError
    /\ spans = <<>>

Init == Llamada(Entradas)

InitProgreso == Llamada(EntradasProgreso)

LocalesActuales ==
    Locales(tokens, linea, linea_inicio, pos, estado, error, spans)

Asignar(s) ==
    /\ tokens' = s.tokens
    /\ linea' = s.linea
    /\ linea_inicio' = s.linea_inicio
    /\ pos' = s.pos
    /\ estado' = s.estado
    /\ error' = s.error
    /\ spans' = s.spans
    /\ UNCHANGED <<texto, con_nuevaslineas, tolerante>>

\* the loop body, for the next match of the iterator
Iterar ==
    /\ estado = "scan"
    /\ \E m \in {Finditer(texto, pos)} :
           /\ m # NoMatch
           /\ Asignar(Iteracion(texto, con_nuevaslineas, tolerante,
                                LocalesActuales, m))

\* the iterator is exhausted: the code after the loop
Finalizar ==
    /\ estado = "scan"
    /\ Finditer(texto, pos) = NoMatch
    /\ Asignar(Final(texto, tolerante, LocalesActuales))

Next == Iterar \/ Finalizar

Spec == Init /\ [][Next]_vars

\* the loop is sequential code: an iteration that can run does run
FairSpec == InitProgreso /\ [][Next]_vars /\ WF_vars(Next)

----------------------------------------------------------------------------
(* What the claims speak of *)

Terminado == estado # "scan"

\* the spans that appended a token, in order: the k-th belongs to tokens[k]
Emitidos == SelectSeq(spans, LAMBDA sp : sp.emite)

\* the 1-based row of offset off: one more than the "\n" before it
FilaDe(t, off) == 1 + Contar(Rebanada(t, 0, off), LF)

\* the 1-based column of offset off: counted from just after the last "\n"
\* before it
ColumnaDe(t, off) == off - (RFind(Rebanada(t, 0, off), LF) + 1) + 1

\* a gap with a character that is not whitespace
GapMalo(t, ini, fin) ==
    \E k \in (ini + 1)..fin : t[k] \notin EspacioRegex

\* the gap that starts at the cursor p, up to the next match or the end
FinDeGap(t, p) ==
    LET m == Finditer(t, p) IN IF m = NoMatch THEN Len(t) ELSE m.inicio

\* C1: every token of the list carries the row and the column of its first
\* character: the row is one more than the line terminators before its start
\* offset, the column counts from just after the last of them.
C1_FilaColumnaDelPrimerCaracter ==
    /\ Len(Emitidos) = Len(tokens)
    /\ \A k \in 1..Len(tokens) :
           /\ tokens[k].atributos.fila = FilaDe(texto, Emitidos[k].ini)
           /\ tokens[k].atributos.columna = ColumnaDe(texto, Emitidos[k].ini)

\* C2: in tolerant mode the call returns for every input, and every gap with
\* a non-whitespace character, between two matches or at the end, gives one
\* ERROR token with the whole gap as lexeme and the gap's row and column, in
\* source order.
C2_ToleranteDevuelveTokensERROR ==
    tolerante =>
        /\ estado \in {"scan", "return"}
        /\ \A k \in 1..Len(spans) :
               (spans[k].clase = "GAP"
                   /\ GapMalo(texto, spans[k].ini, spans[k].fin))
               => spans[k].emite
        /\ \A k \in 1..Len(tokens) :
               Emitidos[k].clase = "GAP" =>
                   /\ tokens[k].tipo = "ERROR"
                   /\ tokens[k].lexema
                          = Rebanada(texto, Emitidos[k].ini, Emitidos[k].fin)
                   /\ tokens[k].atributos.fila = FilaDe(texto, Emitidos[k].ini)
                   /\ tokens[k].atributos.columna
                          = ColumnaDe(texto, Emitidos[k].ini)

\* C3: in strict mode the call fails exactly when the text has a gap with a
\* non-whitespace character, at the first such gap, and the error carries
\* that gap's row and column; a gap of whitespace alone neither fails nor
\* gives a token.
C3_EstrictoFallaEnElPrimerGap ==
    ~tolerante =>
        /\ estado # "TypeError"
        /\ \A k \in 1..Len(spans) :
               spans[k].clase = "GAP" =>
                   /\ ~GapMalo(texto, spans[k].ini, spans[k].fin)
                   /\ ~spans[k].emite
        /\ estado = "ExploradorError" =>
               /\ GapMalo(texto, pos, FinDeGap(texto, pos))
               /\ error.fila = FilaDe(texto, pos)
               /\ error.columna = ColumnaDe(texto, pos)
        /\ estado = "return" => ~\E p \in 0..(Len(texto) - 1) :
               /\ \A q \in 0..p : MASTER_RE(texto, q).fin <= p
               /\ MASTER_RE(texto, p) = NoMatch
               /\ texto[p + 1] \notin EspacioRegex

\* C4: when the call returns, the spans gone over (matches and gaps) are
\* non-empty, start at offset 0, each start where the one before ends, and end
\* at the end of the text, so that their concatenation is the text; and each
\* token's lexeme is the non-empty text of its span.
RECURSIVE Concatenar(_, _)
Concatenar(t, sps) ==
    IF sps = <<>> THEN <<>>
    ELSE Rebanada(t, Head(sps).ini, Head(sps).fin) \o Concatenar(t, Tail(sps))

C4_Reconstruccion ==
    estado = "return" =>
        /\ \A k \in 1..Len(spans) :
               /\ 0 <= spans[k].ini
               /\ spans[k].ini < spans[k].fin
               /\ spans[k].fin <= Len(texto)
               /\ spans[k].ini = (IF k = 1 THEN 0 ELSE spans[k - 1].fin)
        /\ Concatenar(texto, spans) = texto
        /\ Len(Emitidos) = Len(tokens)
        /\ \A k \in 1..Len(tokens) :
               /\ tokens[k].lexema # <<>>
               /\ tokens[k].lexema
                      = SubSeq(texto, Emitidos[k].ini + 1, Emitidos[k].fin)

\* a returned call that went over a dropped match, a gap and a token
C4_Testigo ==
    /\ estado = "return"
    /\ \E k \in 1..Len(spans) : spans[k].clase = "GAP"
    /\ \E k \in 1..Len(spans) : spans[k].clase # "GAP" /\ ~spans[k].emite
    /\ \E k \in 1..Len(spans) : spans[k].clase = "IDENT"
    /\ Len(tokens) >= 2

\* the index in tokens of the token that span k appended
IndiceToken(k) == Len(SelectSeq(SubSeq(spans, 1, k), LAMBDA sp : sp.emite))

\* C5: the newline option only adds NL tokens: the call with the other
\* setting of con_nuevaslineas ends the same way and at the same row, and the
\* list with NL tokens, its NL tokens removed, is the list without them.
C5_SoloAgregaNL ==
    Terminado =>
        LET otro == Tokenizar(texto, ~con_nuevaslineas, tolerante)
            con == IF con_nuevaslineas THEN LocalesActuales ELSE otro
            sin == IF con_nuevaslineas THEN otro ELSE LocalesActuales
        IN  /\ con.estado = sin.estado
            /\ con.error = sin.error
            /\ con.linea = sin.linea
            /\ con.linea_inicio = sin.linea_inicio
            /\ con.pos = sin.pos
            /\ SelectSeq(con.tokens, LAMBDA tk : tk.tipo # "NL") = sin.tokens
            /\ \A k \in 1..Len(sin.tokens) : sin.tokens[k].tipo # "NL"

\* a returned list with an NL token between two other tokens
C5_Testigo ==
    /\ estado = "return"
    /\ con_nuevaslineas
    /\ Len(tokens) >= 3
    /\ \E k \in 2..(Len(tokens) - 1) : tokens[k].tipo = "NL"
    /\ linea >= 2

\* C6: a match that starts where two characters form a multi-character
\* operator is the OPERADOR of those two characters, never the one-character
\* prefix; "&&=" in strict mode returns OPERADOR "&&", OPERADOR "=".
C6_OperadorDeDosCaracteres ==
    /\ \A k \in 1..Len(spans) :
           (spans[k].clase # "GAP"
               /\ \E j \in 1..Len(MULTI_OPS) :
                      Literal(texto, spans[k].ini, MULTI_OPS[j]))
           => /\ spans[k].clase = "OPERADOR"
              /\ spans[k].fin = spans[k].ini + 2
              /\ spans[k].emite
              /\ tokens[IndiceToken(k)].tipo = "OPERADOR"
              /\ tokens[IndiceToken(k)].lexema
                     = SubSeq(texto, spans[k].ini + 1, spans[k].ini + 2)
    /\ (texto = <<"&", "&", "=">> /\ ~tolerante /\ Terminado)
           => /\ estado = "return"
              /\ Len(tokens) = 2
              /\ tokens[1].lexema = <<"&", "&">> /\ tokens[1].tipo = "OPERADOR"
              /\ tokens[2].lexema = <<"=">> /\ tokens[2].tipo = "OPERADOR"

\* "&&=" tokenized in strict mode
C6_Testigo ==
    /\ texto = <<"&", "&", "=">>
    /\ ~tolerante
    /\ estado = "return"
    /\ Len(tokens) = 2

\* C7: a token of an identifier match is PALABRA_CLAVE exactly when its whole
\* lexeme is a keyword, IDENT otherwise; the match is the maximal run of
\* letters, digits and underscores from a letter or underscore.
C7_PalabraClaveSoloLexemaEntero ==
    /\ \A k \in 1..Len(spans) :
           spans[k].clase = "IDENT" =>
               LET tk == tokens[IndiceToken(k)]
               IN  /\ spans[k].emite
                   /\ tk.lexema = SubSeq(texto, spans[k].ini + 1, spans[k].fin)
                   /\ tk.lexema[1] \in InicioIdent
                   /\ \A j \in 1..Len(tk.lexema) : tk.lexema[j] \in CuerpoIdent
                   /\ spans[k].fin < Len(texto)
                          => texto[spans[k].fin + 1] \notin CuerpoIdent
                   /\ tk.lexema \in PALABRAS_CLAVE => tk.tipo = "PALABRA_CLAVE"
                   /\ tk.lexema \notin PALABRAS_CLAVE => tk.tipo = "IDENT"
    /\ \A k \in 1..Len(tokens) :
           tokens[k].tipo \in {"PALABRA_CLAVE", "IDENT"}
               => Emitidos[k].clase = "IDENT"
    /\ (texto = <<"s","i","v","a","r","i","a","b","l","e">> /\ estado = "return")
           => Len(tokens) = 1 /\ tokens[1].tipo = "IDENT"
    /\ (texto = <<"s","i"," ","v","a","r","i","a","b","l","e">>
            /\ estado = "return")
           => /\ Len(tokens) = 2
              /\ tokens[1].tipo = "PALABRA_CLAVE"
              /\ tokens[1].lexema = <<"s","i">>
              /\ tokens[2].tipo = "IDENT"
              /\ tokens[2].lexema = <<"v","a","r","i","a","b","l","e">>

\* "si variable" tokenized: a keyword, then an identifier
C7_Testigo ==
    /\ texto = <<"s","i"," ","v","a","r","i","a","b","l","e">>
    /\ estado = "return"
    /\ Len(tokens) = 2
    /\ tokens[1].tipo = "PALABRA_CLAVE"

\* C8: every iteration of the loop that goes on moves the cursor forward, no
\* match is empty, and every call ends.
C8_CursorAvanza ==
    [][/\ estado' = "scan" => pos' > pos
       /\ \A k \in 1..Len(spans') : spans'[k].fin > spans'[k].ini]_vars

C8_Termina == <>Terminado

C8_Progreso == C8_CursorAvanza /\ C8_Termina

\* a call that ended after several iterations, at the end of the text
C8_Testigo ==
    /\ estado = "return"
    /\ Len(spans) >= 4
    /\ pos = Len(texto)

\* the offset of the first "*/" at or after offset p, -1 when there is none
PrimerCierre(t, p) ==
    IF \E q \in p..(Len(t) - 2) : Literal(t, q, <<"*", "/">>)
    THEN CHOOSE q \in p..(Len(t) - 2) :
             /\ Literal(t, q, <<"*", "/">>)
             /\ \A r \in p..(q - 1) : ~Literal(t, r, <<"*", "/">>)
    ELSE -1

\* C9: a match that starts at "/*" is the block comment that ends with the
\* first "*/" after the opening, whenever there is one.
C9_BloqueHastaElPrimerCierre ==
    \A k \in 1..Len(spans) :
        (Literal(texto, spans[k].ini, <<"/", "*">>)
            /\ PrimerCierre(texto, spans[k].ini + 2) # -1)
        => /\ spans[k].clase = "COMENT_BLOQ"
           /\ spans[k].fin = PrimerCierre(texto, spans[k].ini + 2) + 2

\* whether one newline sequence, "\n" or "\r\n", starts at offset i
EmpiezaSalto(t, i) == Literal(t, i, <<LF>>) \/ Literal(t, i, <<CR, LF>>)

\* C10 as stated: a match that starts at a run of newline sequences ("\n" or
\* "\r\n") is one NL match of the whole run.
C10_RachaEnUnSoloMatch ==
    \A k \in 1..Len(spans) :
        (spans[k].clase # "GAP" /\ EmpiezaSalto(texto, spans[k].ini))
        => /\ spans[k].clase = "NL"
           /\ spans[k].fin = RachaNL(texto, spans[k].ini)

\* C10 as amended: an iteration whose match starts at "\n" takes the whole
\* run of newline sequences as one NL match, adds the run's "\n" count to the
\* row, sets the row start to the end of the run and appends one NL token
\* when they are kept; one whose match starts at "\r\n" takes the "\r" alone
\* as ESPACIO and changes neither the row nor the tokens, leaving the cursor
\* at the "\n" of the same run.
C10_RachaTrasElRetornoDeCarro ==
    [][(estado' = "scan" /\ Len(spans') > Len(spans)) =>
        LET sp == spans'[Len(spans')]
            run == SubSeq(texto, sp.ini + 1, RachaNL(texto, sp.ini))
        IN  /\ Literal(texto, sp.ini, <<LF>>) =>
                /\ sp.clase = "NL"
                /\ sp.fin = RachaNL(texto, sp.ini)
                /\ pos' = sp.fin
                /\ linea' = linea + Contar(run, LF)
                /\ linea_inicio' = sp.fin
                /\ tokens' = IF con_nuevaslineas
                             THEN Append(tokens,
                                      Token(run, "NL",
                                            [fila |-> linea,
                                             columna |-> sp.ini
                                                 - linea_inicio + 1]))
                             ELSE tokens
            /\ Literal(texto, sp.ini, <<CR, LF>>) =>
                /\ sp.clase = "ESPACIO"
                /\ sp.fin = sp.ini + 1
                /\ pos' = sp.ini + 1
                /\ RachaNL(texto, pos') = RachaNL(texto, sp.ini)
                /\ linea' = linea
                /\ linea_inicio' = linea_inicio
                /\ tokens' = tokens]_vars

\* "a\r\n\r\nb" with NL tokens kept: one NL token between a and b, b on row 3
C10_Testigo ==
    /\ texto = <<"a", CR, LF, CR, LF, "b">>
    /\ con_nuevaslineas
    /\ estado = "return"
    /\ Len(tokens) = 3
    /\ tokens[2].tipo = "NL"
    /\ tokens[2].lexema = <<LF, CR, LF>>
    /\ tokens[3].atributos.fila = 3

====
